---- MODULE Spec2Model ----
(***************************************************************************)
(* The Vulkan swapchain frame lifecycle of src/vulkan/vulkan_swapchain.cc: *)
(* negotiation of a chain (the constructor), AcquireSurface and Submit,    *)
(* with the GPU completing submitted work asynchronously, GetSize, and the *)
(* teardown of a chain and of the predecessor handed to a negotiation.     *)
(* Beside it, the frame handed out by a rendering surface, SurfaceFrame of *)
(* src/shell/common/surface.cc, and the exported scene node, ExportNode    *)
(* and its ExportNodeHolder of src/unnamed/part_003.                       *)
(***************************************************************************)
EXTENDS Integers, Sequences, FiniteSets, TLC

(* ------------------------------ bounds --------------------------------- *)

\* The largest image count the platform reports for a swapchain.
MaxImages == 2

\* The largest number of negotiation steps that fail in one negotiation.
MaxFailedSteps == 2

\* The largest width or height the surface capabilities report.
MaxExtent == 2

\* The Submit calls made on one SurfaceFrame.
MaxSubmits == 5

\* The Bind and Dispose calls made on one ExportNode.
MaxNodeCalls == 4

\* The scene update contexts an ExportNode can be bound with.
MaxContexts == 2

(* --------------------------- value domains ----------------------------- *)

Slots == 0 .. (MaxImages - 1)

\* VkResult values AcquireNextImageKHR can return.
AcquireResults ==
  { "VK_SUCCESS", "VK_ERROR_OUT_OF_DATE_KHR", "VK_ERROR_SURFACE_LOST_KHR",
    "VK_SUBOPTIMAL_KHR", "VK_TIMEOUT", "VK_NOT_READY" }

\* VkResult values QueuePresentKHR can return.
PresentResults ==
  { "VK_SUCCESS", "VK_ERROR_OUT_OF_DATE_KHR", "VK_ERROR_SURFACE_LOST_KHR",
    "VK_SUBOPTIMAL_KHR" }

\* A fence is "signaled", "unsignaled" with no submission that will signal
\* it, or "pending": handed to a queue submission the GPU has not completed.

VARIABLES
  constructed,                \* the constructor has run
  neg,                        \* what the collaborators answered in the constructor
  valid_,
  backbuffers_,               \* backbuffers_.size()
  images_,                    \* images_.size()
  surfaces_,                  \* surfaces_.size()
  current_backbuffer_index_,
  current_image_index_,
  current_pipeline_stage_,
  usageFence,                 \* per slot: state of the usage fence
  renderFence,                \* per slot: state of the render fence
  acquired_slot,              \* {slot} of the AcquireSurface that set current_image_index_
  swapchain_,                 \* the chain holds a native swapchain handle
  capabilities_,
  surface_format_,
  old_swapchain,              \* the predecessor handed to the constructor
  size,                       \* what the last GetSize returned
  cycle,                      \* the caller's frame loop so far, see FrameLoop
  image_stage,                \* per image wrapper that tracks it: the stage of its last barrier
  image_acquired,             \* per image tracked: the platform has handed it out and not got it back
  usage_semaphore,            \* per slot tracked: a signal of its usage semaphore is outstanding
  pc,                         \* "idle", "WaitFences" inside AcquireSurface, "returned"
  lastOp,                     \* the call in progress or returning
  entry,                      \* the chain's indices and stage when that call began
  result,                     \* what the call returns
  calls,                      \* the collaborator calls of that call, in order
  surface_frame,              \* the SurfaceFrame: "none", "alive" or "destroyed"
  submitted_,
  surface_,                   \* surface_ is not null
  submit_callback_,           \* submit_callback_ holds a callable
  frame_log,                  \* the Submit returns and callback invocations of the frame
  holder,                     \* the ExportNodeHolder: "none", "alive" or "destroyed"
  export_node_,               \* the holder owns its ExportNode
  export_node,                \* the ExportNode: "none", "alive" or "destroyed"
  export_token_,              \* export_token_ holds a valid handle
  node_,                      \* node_ is set
  scene_update_context_,      \* the context registered with, 0 for null
  binding,                    \* the context of the Bind the GPU thread is in, 0 outside Bind
  gpu_tasks,                  \* the tasks posted to the GPU thread and not yet run
  export_log                  \* what happened to the ExportNode, in order

vars ==
  << constructed, neg, valid_, backbuffers_, images_, surfaces_,
     current_backbuffer_index_, current_image_index_, current_pipeline_stage_,
     usageFence, renderFence, acquired_slot, swapchain_, capabilities_,
     surface_format_, old_swapchain, size, cycle, image_stage, image_acquired,
     usage_semaphore, pc, lastOp, entry, result, calls,
     surface_frame, submitted_, surface_, submit_callback_, frame_log,
     holder, export_node_, export_node, export_token_, node_,
     scene_update_context_, binding, gpu_tasks, export_log >>

\* The state of the ExportNode, of its holder and of the GPU thread.
exportVars ==
  << holder, export_node_, export_node, export_token_, node_,
     scene_update_context_, binding, gpu_tasks, export_log >>

\* The state of the swapchain and of the call made on it.
swapchainVars ==
  << constructed, neg, valid_, backbuffers_, images_, surfaces_,
     current_backbuffer_index_, current_image_index_, current_pipeline_stage_,
     usageFence, renderFence, acquired_slot, swapchain_, capabilities_,
     surface_format_, old_swapchain, size, cycle, image_stage, image_acquired,
     usage_semaphore, pc, lastOp, entry, result, calls >>

\* The state of the SurfaceFrame.
frameVars ==
  << surface_frame, submitted_, surface_, submit_callback_, frame_log >>

chainVars ==
  << constructed, neg, valid_, backbuffers_, images_, surfaces_, swapchain_,
     capabilities_, surface_format_, size >>

\* A semaphore, command buffer or fence of backbuffer slot s.
Resource(kind, s) == << kind, s >>

\* The synchronisation arguments of a platform call: the semaphores it waits
\* on and signals, the command buffers it submits, the fence it signals and
\* the image indices it names.
Args(wait, signal, buffers, fence, images) ==
  [ wait |-> wait, signal |-> signal, buffers |-> buffers, fence |-> fence,
    images |-> images ]

NoArgs == Args({}, {}, {}, {}, {})

\* One collaborator call of the log: the call, the backbuffer slot and image
\* index it was made for, what it answered, for a call that uses a slot's
\* command buffer, semaphore or fence the state in which the previous use of
\* the slot left the fence that guards the resource, and its
\* synchronisation arguments.
CallWith(call, slot, idx, res, pre, args) ==
  [ call |-> call, slot |-> slot, idx |-> idx, res |-> res, pre |-> pre,
    args |-> args ]

Call(call, slot, idx, res, pre) == CallWith(call, slot, idx, res, pre, NoArgs)

Ok(b) == IF b THEN "ok" ELSE "failed"

(* ----------------------------- negotiation ----------------------------- *)

\* The per-image construction steps of CreateSwapchainImages, in code order.
PerImageSteps == { "backbuffer", "image", "surface" }

\* What the collaborators answer during one negotiation.  perImageStep and
\* perImageAt name the first per-image construction step that fails ("none"
\* when all succeed).
NegotiationAnswers ==
  [ deviceValid : BOOLEAN, surfaceValid : BOOLEAN, contextNonNull : BOOLEAN,
    capsOk : BOOLEAN, formatOk : BOOLEAN, presentModeOk : BOOLEAN,
    supportQueryOk : BOOLEAN, supported : BOOLEAN, createOk : BOOLEAN,
    countQueryOk : BOOLEAN, imagesQueryOk : BOOLEAN,
    imageCount : 0 .. MaxImages,
    perImageStep : PerImageSteps \cup { "none" },
    perImageAt : Slots ]

Flags ==
  { "deviceValid", "surfaceValid", "contextNonNull", "capsOk", "formatOk",
    "presentModeOk", "supportQueryOk", "supported", "createOk",
    "countQueryOk", "imagesQueryOk" }

FailedFlags(in) == { f \in Flags : ~in[f] }

\* The negotiations explored: at most MaxFailedSteps failing answers, and a
\* failing per-image step only at an image the platform reported.
NegotiationInputs ==
  { in \in NegotiationAnswers :
      /\ Cardinality(FailedFlags(in)) <= MaxFailedSteps
      /\ IF in.perImageStep = "none"
           THEN in.perImageAt = 0
           ELSE in.perImageAt < in.imageCount }

\* No vector holds anything and the chain is not valid.
NoImages == [ ok |-> FALSE, backbuffers |-> 0, images |-> 0, surfaces |-> 0 ]

\* GetImages without the check of the second query.
GetImages_FillUnchecked(in) ==
  IF ~in.countQueryOk THEN 0
  ELSE in.imageCount

\* GetImages: the number of images in the vector it returns.
GetImages(in) ==
  IF ~in.countQueryOk THEN 0
  ELSE IF in.imageCount = 0 THEN 0
  ELSE IF ~in.imagesQueryOk THEN 0
  ELSE in.imageCount

\* The loop of CreateSwapchainImages over the images, from image k on, with
\* the sizes reached so far.  Each step that fails returns false at once and
\* leaves the vectors as they are.
RECURSIVE CreateSwapchainImagesLoop(_, _, _, _, _, _)
CreateSwapchainImagesLoop(k, n, in, bb, im, sf) ==
  LET failsHere(step) == in.perImageStep = step /\ in.perImageAt = k IN
  IF k = n THEN [ ok |-> TRUE, backbuffers |-> bb, images |-> im, surfaces |-> sf ]
  ELSE IF failsHere("backbuffer")
    THEN [ ok |-> FALSE, backbuffers |-> bb, images |-> im, surfaces |-> sf ]
  ELSE IF failsHere("image")
    THEN [ ok |-> FALSE, backbuffers |-> bb + 1, images |-> im, surfaces |-> sf ]
  ELSE IF failsHere("surface")
    THEN [ ok |-> FALSE, backbuffers |-> bb + 1, images |-> im + 1, surfaces |-> sf ]
  ELSE CreateSwapchainImagesLoop(k + 1, n, in, bb + 1, im + 1, sf + 1)

\* CreateSwapchainImages without the check for an empty image vector.
CreateSwapchainImages_NoEmptyCheck(in) ==
  CreateSwapchainImagesLoop(0, GetImages(in), in, 0, 0, 0)

CreateSwapchainImages(in) ==
  LET n == GetImages(in) IN
  IF n = 0
    THEN NoImages
    ELSE CreateSwapchainImagesLoop(0, n, in, 0, 0, 0)

\* The constructor without the check of the presentation-support answer.
VulkanSwapchain_NoSupportCheck(in) ==
  IF ~in.deviceValid \/ ~in.surfaceValid \/ ~in.contextNonNull THEN NoImages
  ELSE IF ~in.capsOk THEN NoImages
  ELSE IF ~in.formatOk THEN NoImages
  ELSE IF ~in.presentModeOk THEN NoImages
  ELSE IF ~in.supportQueryOk THEN NoImages
  ELSE IF ~in.createOk THEN NoImages
  ELSE CreateSwapchainImages(in)

\* The constructor: valid_ and the three vectors it leaves behind.
VulkanSwapchain(in) ==
  IF ~in.deviceValid \/ ~in.surfaceValid \/ ~in.contextNonNull THEN NoImages
  ELSE IF ~in.capsOk THEN NoImages
  ELSE IF ~in.formatOk THEN NoImages
  ELSE IF ~in.presentModeOk THEN NoImages
  ELSE IF ~in.supportQueryOk THEN NoImages
  ELSE IF ~in.supported THEN NoImages
  ELSE IF ~in.createOk THEN NoImages
  ELSE CreateSwapchainImages(in)

\* IsValid that reports every chain valid.
IsValid_Always == TRUE

IsValid == valid_

\* VkExtent2D and the part of VkSurfaceCapabilitiesKHR the chain reads.
Extent(w, h) == [ width |-> w, height |-> h ]

Capabilities(cur, min, max) ==
  [ currentExtent |-> cur, minImageExtent |-> min, maxImageExtent |-> max ]

\* capabilities_() and surface_format_() of the member initialisers.
ZeroCapabilities == Capabilities(Extent(0, 0), Extent(0, 0), Extent(0, 0))

ZeroFormat == "VK_FORMAT_UNDEFINED"

\* What GetSurfaceCapabilities and ChooseSurfaceFormat write during the
\* negotiations explored with the frame lifecycle.
ReportedCapabilities == Capabilities(Extent(1, 1), Extent(1, 1), Extent(1, 1))

ChosenFormat == "VK_FORMAT_B8G8R8A8_UNORM"

\* What ChoosePresentMode does with the mode it is handed: it leaves it as
\* it is when the device offers no alternative, or writes the alternative.
PresentModeAnswers == { "unchanged", "VK_PRESENT_MODE_MAILBOX_KHR" }

\* A present mode initialised to the immediate mode.
PresentModeDefault_Immediate == "VK_PRESENT_MODE_IMMEDIATE_KHR"

\* The initial value of present_mode.
PresentModeDefault == "VK_PRESENT_MODE_FIFO_KHR"

\* present_mode once ChoosePresentMode has returned true.
PresentModeAfter(answer) ==
  IF answer = "unchanged" THEN PresentModeDefault ELSE answer

\* A predecessor chain as the constructor sees it: whether one is given,
\* whether it is valid and holds a handle, and the stage its frames left.
NoOld == [ given |-> FALSE, valid |-> FALSE, handle |-> FALSE, stage |-> "-" ]

\* old_swapchain_handle taken from every predecessor given.
OldSwapchainHandle_ValidityUnchecked(old) ==
  IF old.given THEN "handle" ELSE "VK_NULL_HANDLE"

\* old_swapchain_handle: the predecessor's handle only when it is valid.
OldSwapchainHandle(old) ==
  IF old.given /\ old.valid THEN "handle" ELSE "VK_NULL_HANDLE"

\* A predecessor kept alive when the negotiation fails.
PredecessorDestroyed_OnSuccess(old, ok) == old.given /\ old.handle /\ ok

\* The predecessor handed to a constructor that ends with the chain valid or
\* not (ok) is destroyed with the parameter that owns it, and its deleter
\* runs if it holds a handle.
PredecessorDestroyed(old, ok) == old.given /\ old.handle

\* The deleter without the device-idle wait.
SwapchainDeleter_NoWait(handle, idleOk) ==
  IF handle
    THEN << Call("DestroySwapchainKHR", 0, 0, "ok", "-") >>
    ELSE << >>

\* The deleter that stops at a failed device-idle wait.
SwapchainDeleter_WaitChecked(handle, idleOk) ==
  IF ~handle THEN << >>
  ELSE IF ~idleOk THEN << Call("WaitIdle", 0, 0, Ok(idleOk), "-") >>
  ELSE << Call("WaitIdle", 0, 0, Ok(idleOk), "-"),
          Call("DestroySwapchainKHR", 0, 0, "ok", "-") >>

\* The deleter of swapchain_, run when a chain that holds a handle is
\* destroyed: the calls it makes.  The answer of WaitIdle is not looked at.
SwapchainDeleter(handle, idleOk) ==
  IF handle
    THEN << Call("WaitIdle", 0, 0, Ok(idleOk), "-"),
            Call("DestroySwapchainKHR", 0, 0, "ok", "-") >>
    ELSE << >>

\* The calls of the loop of CreateSwapchainImages from image k on.
RECURSIVE PerImageCalls(_, _, _)
PerImageCalls(k, n, in) ==
  LET failsHere(step) == in.perImageStep = step /\ in.perImageAt = k
      b == Call("VulkanBackbuffer", k, k, Ok(~failsHere("backbuffer")), "-")
      i == Call("VulkanImage", k, k, Ok(~failsHere("image")), "-")
      s == Call("CreateSkiaSurface", k, k, Ok(~failsHere("surface")), "-")
  IN
  IF k = n THEN << >>
  ELSE IF failsHere("backbuffer") THEN << b >>
  ELSE IF failsHere("image") THEN << b, i >>
  ELSE IF failsHere("surface") THEN << b, i, s >>
  ELSE << b, i, s >> \o PerImageCalls(k + 1, n, in)

\* The calls of GetImages.
GetImagesCalls(in) ==
  LET count == Call("GetSwapchainImagesKHR", 0, in.imageCount,
                    Ok(in.countQueryOk), "count")
      fill == Call("GetSwapchainImagesKHR", 0, in.imageCount,
                   Ok(in.imagesQueryOk), "images")
  IN
  IF ~in.countQueryOk THEN << count >>
  ELSE IF in.imageCount = 0 THEN << count >>
  ELSE << count, fill >>

\* The answer of the presentation-support query not looked at.
SurfaceUnsupported_Unchecked(in) == FALSE

\* The check of what the presentation-support query wrote.
SurfaceUnsupported(in) == ~in.supported

\* The collaborator calls of the constructor body, in order.  mode is what
\* ChoosePresentMode answers and old the predecessor handed in.
NegotiationCalls(in, mode, old) ==
  LET l1 == << Call("IsValid", 0, 0,
                    Ok(in.deviceValid /\ in.surfaceValid /\ in.contextNonNull),
                    "-") >>
      l2 == Append(l1, Call("GetSurfaceCapabilities", 0, 0, Ok(in.capsOk), "-"))
      l3 == Append(l2, Call("ChooseSurfaceFormat", 0, 0, Ok(in.formatOk), "-"))
      l4 == Append(l3, Call("ChoosePresentMode", 0, 0, Ok(in.presentModeOk), mode))
      l5 == Append(l4, Call("GetPhysicalDeviceSurfaceSupportKHR", 0, 0,
                            Ok(in.supportQueryOk),
                            IF in.supported THEN "VK_TRUE" ELSE "VK_FALSE"))
      l6 == l5 \o << Call("VkSwapchainCreateInfoKHR", 0, 0,
                          OldSwapchainHandle(old), PresentModeAfter(mode)),
                     Call("CreateSwapchainKHR", 0, 0, Ok(in.createOk), "-") >>
      l7 == l6 \o GetImagesCalls(in)
  IN
  IF ~in.deviceValid \/ ~in.surfaceValid \/ ~in.contextNonNull THEN l1
  ELSE IF ~in.capsOk THEN l2
  ELSE IF ~in.formatOk THEN l3
  ELSE IF ~in.presentModeOk THEN l4
  ELSE IF ~in.supportQueryOk THEN l5
  ELSE IF SurfaceUnsupported(in) THEN l5
  ELSE IF ~in.createOk THEN l6
  ELSE l7 \o PerImageCalls(0, GetImages(in), in)

\* The log holds a call of this name with this answer.
Answered(log, name, res) ==
  \E k \in 1 .. Len(log) : log[k].call = name /\ log[k].res = res

\* One dimension of GetSize clamped from below only.
GetSizeDimension_NoUpperClamp(cur, min, max) ==
  IF cur < min THEN min ELSE cur

\* One dimension of GetSize.
GetSizeDimension(cur, min, max) ==
  IF cur < min THEN min
  ELSE IF cur > max THEN max
  ELSE cur

\* GetSize of a chain with capabilities c.
GetSize(c) ==
  [ width |-> GetSizeDimension(c.currentExtent.width, c.minImageExtent.width,
                               c.maxImageExtent.width),
    height |-> GetSizeDimension(c.currentExtent.height, c.minImageExtent.height,
                                c.maxImageExtent.height) ]

\* imageExtent of the VkSwapchainCreateInfoKHR of a chain with capabilities c.
CreateInfoImageExtent(c) == c.currentExtent

(* ------------------------------- state --------------------------------- *)

NoAnswers ==
  [ deviceValid |-> FALSE, surfaceValid |-> FALSE, contextNonNull |-> FALSE,
    capsOk |-> FALSE, formatOk |-> FALSE, presentModeOk |-> FALSE,
    supportQueryOk |-> FALSE, supported |-> FALSE, createOk |-> FALSE,
    countQueryOk |-> FALSE, imagesQueryOk |-> FALSE,
    imageCount |-> 0, perImageStep |-> "none", perImageAt |-> 0 ]

\* A result: the status returned and the render target handed out ({} is none).
NoResult == [ status |-> "none", surface |-> {} ]

NoEntry ==
  [ slot |-> 0, image |-> 0, stage |-> "-", chain |-> << >>,
    image_stage |-> << >>, image_acquired |-> << >>,
    usage_semaphore |-> << >> ]

\* No image wrapper tracks the stage of its last barrier.
Untracked == [ i \in {} |-> "TOP_OF_PIPE" ]

\* The stages the wrappers track once a barrier for image i was or was not
\* recorded with destination stage: a wrapper that tracks its stage takes
\* the destination of a barrier recorded on its image.
ImageStageAfter(i, recorded, stage) ==
  IF recorded /\ i \in DOMAIN image_stage
    THEN [ image_stage EXCEPT ![i] = stage ]
    ELSE image_stage

\* The platform's ownership of the images is not followed.
NoImagesFollowed == [ i \in {} |-> FALSE ]

\* The usage semaphores are not followed.
NoSemaphoresFollowed == [ s \in {} |-> "unsignaled" ]

\* A platform call that answered res took effect: vkAcquireNextImageKHR and
\* vkQueuePresentKHR also do with the suboptimal status.
TookEffect(res) == res \in { "ok", "VK_SUCCESS", "VK_SUBOPTIMAL_KHR" }

\* The images out of the platform's hands after the calls of log: an
\* AcquireNextImageKHR that took effect hands out the image it names, a
\* QueuePresentKHR that took effect gives back the images it names.
ImageAcquiredAfter(log) ==
  [ i \in DOMAIN image_acquired |->
      IF \E k \in DOMAIN log : /\ log[k].call = "AcquireNextImageKHR"
                               /\ TookEffect(log[k].res)
                               /\ log[k].idx = i
        THEN TRUE
      ELSE IF \E k \in DOMAIN log : /\ log[k].call = "QueuePresentKHR"
                                    /\ TookEffect(log[k].res)
                                    /\ i \in log[k].args.images
        THEN FALSE
      ELSE image_acquired[i] ]

\* The usage semaphores after the calls of log: a call that took effect
\* leaves a signal outstanding on the semaphores it signals and consumes the
\* signal of the semaphores it waits on.
UsageSemaphoreAfter(log) ==
  [ s \in DOMAIN usage_semaphore |->
      LET sem == Resource("usage semaphore", s)
          signals == { k \in DOMAIN log :
                         TookEffect(log[k].res) /\ sem \in log[k].args.signal }
          waits == { k \in DOMAIN log :
                       TookEffect(log[k].res) /\ sem \in log[k].args.wait }
      IN
      IF signals = {} /\ waits = {} THEN usage_semaphore[s]
      ELSE IF \E k \in waits : \A j \in signals : j < k THEN "unsignaled"
      ELSE "signaled" ]

\* The members of the chain fixed by the constructor.
Chain ==
  << valid_, swapchain_, surface_format_, capabilities_, backbuffers_, images_,
     surfaces_ >>

\* The chain's indices, tracked stage and fixed members, as a call finds them.
Entry ==
  [ slot |-> current_backbuffer_index_, image |-> current_image_index_,
    stage |-> current_pipeline_stage_, chain |-> Chain,
    image_stage |-> image_stage, image_acquired |-> image_acquired,
    usage_semaphore |-> usage_semaphore ]

\* No GetSize has returned yet.
NoSize == Extent(-1, -1)

\* The caller's frame loop: "acquire" while every call so far was an
\* AcquireSurface that returned Success followed by a Submit that returned
\* true and an AcquireSurface is next, "submit" when the Submit of such a
\* frame is next, "off" once the caller left that loop or a call failed.
FrameLoop == { "acquire", "submit", "off" }

\* No SurfaceFrame has been made.
NoSurfaceFrame ==
  /\ surface_frame = "none"
  /\ submitted_ = FALSE
  /\ surface_ = FALSE
  /\ submit_callback_ = FALSE
  /\ frame_log = << >>

\* No ExportNodeHolder has been made.
NoExportNode ==
  /\ holder = "none"
  /\ export_node_ = FALSE
  /\ export_node = "none"
  /\ export_token_ = FALSE
  /\ node_ = FALSE
  /\ scene_update_context_ = 0
  /\ binding = 0
  /\ gpu_tasks = << >>
  /\ export_log = << >>

Init ==
  /\ constructed = FALSE
  /\ neg = NoAnswers
  /\ valid_ = FALSE
  /\ backbuffers_ = 0
  /\ images_ = 0
  /\ surfaces_ = 0
  /\ current_backbuffer_index_ = 0
  /\ current_image_index_ = 0
  /\ current_pipeline_stage_ = "TOP_OF_PIPE"
  /\ usageFence = [ s \in Slots |-> "signaled" ]
  /\ renderFence = [ s \in Slots |-> "signaled" ]
  /\ acquired_slot = {}
  /\ swapchain_ = FALSE
  /\ capabilities_ = ZeroCapabilities
  /\ surface_format_ = ZeroFormat
  /\ old_swapchain = NoOld
  /\ size = NoSize
  /\ cycle = "off"
  /\ image_stage = Untracked
  /\ image_acquired = NoImagesFollowed
  /\ usage_semaphore = NoSemaphoresFollowed
  /\ pc = "idle"
  /\ lastOp = "none"
  /\ entry = NoEntry
  /\ result = NoResult
  /\ calls = << >>
  /\ NoSurfaceFrame
  /\ NoExportNode

\* The members of a chain before its constructor body runs, and of no chain.
Unbuilt ==
  /\ neg' = NoAnswers
  /\ valid_' = FALSE
  /\ backbuffers_' = 0
  /\ images_' = 0
  /\ surfaces_' = 0
  /\ current_backbuffer_index_' = 0
  /\ current_image_index_' = 0
  /\ current_pipeline_stage_' = "TOP_OF_PIPE"
  /\ usageFence' = [ s \in Slots |-> "signaled" ]
  /\ renderFence' = [ s \in Slots |-> "signaled" ]
  /\ acquired_slot' = {}
  /\ swapchain_' = FALSE
  /\ capabilities_' = ZeroCapabilities
  /\ surface_format_' = ZeroFormat
  /\ size' = NoSize
  /\ cycle' = "off"
  /\ image_stage' = Untracked
  /\ image_acquired' = NoImagesFollowed
  /\ usage_semaphore' = NoSemaphoresFollowed

\* The constructor runs with whatever the collaborators answer; the
\* predecessor handed to it is destroyed when the constructor has returned.
Construct ==
  /\ ~constructed
  /\ pc = "idle"
  /\ \E in \in NegotiationInputs, mode \in PresentModeAnswers, idleOk \in BOOLEAN :
       LET c == VulkanSwapchain(in)
           log == NegotiationCalls(in, mode, old_swapchain)
           old == PredecessorDestroyed(old_swapchain, c.ok)
       IN
       /\ ~old => idleOk
       /\ ~Answered(log, "ChoosePresentMode", "ok") => mode = "unchanged"
       /\ constructed' = TRUE
       /\ neg' = in
       /\ valid_' = c.ok
       /\ backbuffers_' = c.backbuffers
       /\ images_' = c.images
       /\ surfaces_' = c.surfaces
       /\ swapchain_' = Answered(log, "CreateSwapchainKHR", "ok")
       /\ capabilities_' =
            IF Answered(log, "GetSurfaceCapabilities", "ok")
              THEN ReportedCapabilities
              ELSE ZeroCapabilities
       /\ surface_format_' =
            IF Answered(log, "ChooseSurfaceFormat", "ok")
              THEN ChosenFormat
              ELSE ZeroFormat
       /\ cycle' = IF c.ok THEN "acquire" ELSE "off"
       /\ UNCHANGED << image_stage, image_acquired, usage_semaphore >>
       /\ calls' = log \o SwapchainDeleter(old, idleOk)
  /\ lastOp' = "VulkanSwapchain"
  /\ pc' = "returned"
  /\ UNCHANGED << current_backbuffer_index_, current_image_index_,
                  current_pipeline_stage_, usageFence, renderFence,
                  acquired_slot, old_swapchain, size, entry, result >>
  /\ UNCHANGED << frameVars, exportVars >>

\* The caller moves the chain into the old_swapchain argument of the
\* constructor of its successor.
HandOver ==
  /\ constructed
  /\ pc = "idle"
  /\ old_swapchain' = [ given |-> TRUE, valid |-> IsValid, handle |-> swapchain_,
                        stage |-> current_pipeline_stage_ ]
  /\ constructed' = FALSE
  /\ Unbuilt
  /\ UNCHANGED << pc, lastOp, entry, result, calls >>
  /\ UNCHANGED << frameVars, exportVars >>

\* The destructor: the chain's members are destroyed, swapchain_ by its
\* deleter.
Destroy ==
  /\ constructed
  /\ pc = "idle"
  /\ \E idleOk \in BOOLEAN :
       /\ ~swapchain_ => idleOk
       /\ calls' = SwapchainDeleter(swapchain_, idleOk)
  /\ constructed' = FALSE
  /\ Unbuilt
  /\ entry' = Entry
  /\ lastOp' = "~VulkanSwapchain"
  /\ pc' = "returned"
  /\ UNCHANGED << old_swapchain, result >>
  /\ UNCHANGED << frameVars, exportVars >>

\* GetSize is called on the chain.
GetSizeCall ==
  /\ constructed
  /\ pc = "idle"
  /\ size' = GetSize(capabilities_)
  /\ lastOp' = "GetSize"
  /\ pc' = "returned"
  /\ UNCHANGED << constructed, neg, valid_, backbuffers_, images_, surfaces_,
                  swapchain_, capabilities_, surface_format_, old_swapchain,
                  current_backbuffer_index_, current_image_index_,
                  current_pipeline_stage_, usageFence, renderFence,
                  acquired_slot, cycle, image_stage, image_acquired,
                  usage_semaphore, entry, result, calls >>
  /\ UNCHANGED << frameVars, exportVars >>

(* --------------------------- collaborators ----------------------------- *)

\* VulkanBackbuffer::WaitFences returns true only once both fences of the slot
\* are signaled; until then it blocks.
WaitFencesDone(s) == usageFence[s] = "signaled" /\ renderFence[s] = "signaled"

\* VulkanBackbuffer::ResetFences on one fence.
ResetFence(f) == IF f = "pending" THEN "pending" ELSE "unsignaled"

\* VulkanDevice::QueueSubmit with a fence in state f: the states the fence can
\* be in afterwards.  Handing over a fence that is not unsignaled is invalid
\* usage, after which the fence may or may not be signaled again.
FenceAfterSubmit(f) ==
  IF f = "unsignaled" THEN { "pending" } ELSE { "pending", "signaled" }

(* ---------------------------- AcquireSurface --------------------------- *)

\* A frame call that marks the chain invalid when it returns an error.
ChainKept_InvalidatedOnError ==
  /\ valid_' = (valid_ /\ result'.status \in { "none", "Success", "true" })
  /\ UNCHANGED << constructed, neg, backbuffers_, images_, surfaces_,
                  swapchain_, capabilities_, surface_format_, size >>

\* AcquireSurface and Submit assign no member but the two indices and the
\* tracked stage.
ChainKept == UNCHANGED chainVars

\* The caller's frame loop after a call op that did or did not succeed.
CycleAfter(op, ok) ==
  IF op = "AcquireSurface" /\ cycle = "acquire" /\ ok THEN "submit"
  ELSE IF op = "Submit" /\ cycle = "submit" /\ ok THEN "acquire"
  ELSE "off"

\* GetNextBackbuffer that does not wrap at the end of the ring.
GetNextBackbuffer_NoWrap(cur, n) == IF cur + 1 < n THEN cur + 1 ELSE cur

\* GetNextBackbuffer with n backbuffers: the index it selects.
GetNextBackbuffer(cur, n) == (cur + 1) % n

\* The switch with the suboptimal status treated as success.
AcquireStatusOf_SuboptimalContinues(r) ==
  CASE r \in { "VK_SUCCESS", "VK_SUBOPTIMAL_KHR" } -> "continue"
    [] r = "VK_ERROR_OUT_OF_DATE_KHR" -> "ErrorSurfaceOutOfDate"
    [] OTHER -> "ErrorSurfaceLost"

\* The switch over the result of AcquireNextImageKHR.
AcquireStatusOf(r) ==
  CASE r = "VK_SUCCESS" -> "continue"
    [] r = "VK_ERROR_OUT_OF_DATE_KHR" -> "ErrorSurfaceOutOfDate"
    [] r = "VK_ERROR_SURFACE_LOST_KHR" -> "ErrorSurfaceLost"
    [] OTHER -> "ErrorSurfaceLost"

\* The sanity check that also rejects the last image.
ImageIndexInRange_Strict(i, n) == i + 1 < n

\* The sanity check off by one.
ImageIndexInRange_OffByOne(i, n) == ~(i > n)

\* The sanity check of the image index.
ImageIndexInRange(i, n) == ~(i >= n)

\* The return value of WaitFences ignored.
WaitFencesFailed_Ignored(in) == FALSE

\* The check of the return value of WaitFences.
WaitFencesFailed(in) == ~in.waitFences

\* The return value of ResetFences ignored.
ResetFencesFailed_Ignored(in) == FALSE

\* The check of the return value of ResetFences.
ResetFencesFailed(in) == ~in.resetFences

\* next_image_index left at its initial value.
AcquiredImageIndex_Initial(in) == 0

\* next_image_index as AcquireNextImageKHR wrote it.
AcquiredImageIndex(in) == in.index

\* destination_pipeline_stage of AcquireSurface.
AcquireDestinationStage == "COLOR_ATTACHMENT_OUTPUT"

\* AcquireNextImageKHR is handed the usage semaphore of slot s and no fence.
AcquireImageArgs(s) ==
  Args({}, { Resource("usage semaphore", s) }, {}, {}, {})

\* The acquire-side submission that also signals the render semaphore.
UsageSubmitArgs_SignalsRender(s) ==
  Args({ Resource("usage semaphore", s) },
       { Resource("render semaphore", s) },
       { Resource("usage command buffer", s) },
       { Resource("usage fence", s) }, {})

\* The acquire-side submission that waits on no semaphore.
UsageSubmitArgs_NoWait(s) ==
  Args({}, {}, { Resource("usage command buffer", s) },
       { Resource("usage fence", s) }, {})

\* The arguments of the QueueSubmit of AcquireSurface for slot s.
UsageSubmitArgs(s) ==
  Args({ Resource("usage semaphore", s) }, {},
       { Resource("usage command buffer", s) },
       { Resource("usage fence", s) }, {})

\* What the collaborators answer during one AcquireSurface call.
AcquireAnswers(st, i) ==
  [ waitFences |-> TRUE, resetFences |-> TRUE, acquire |-> st, index |-> i,
    begin |-> TRUE, barrier |-> TRUE, end |-> TRUE, queueSubmit |-> TRUE,
    getHandle |-> TRUE ]

AcquireFailable == { "begin", "barrier", "end", "queueSubmit", "getHandle" }

\* The answers explored with n images: the call is terminal on the first
\* failure, so at most one collaborator fails; the platform may hand back
\* any index up to n, which is out of range.
AcquireInputs(n) ==
  { [ AcquireAnswers("VK_SUCCESS", 0) EXCEPT !.waitFences = FALSE ],
    [ AcquireAnswers("VK_SUCCESS", 0) EXCEPT !.resetFences = FALSE ] }
  \cup { AcquireAnswers(st, 0) : st \in AcquireResults \ { "VK_SUCCESS" } }
  \cup { AcquireAnswers("VK_SUCCESS", i) : i \in 0 .. n }
  \cup { [ AcquireAnswers("VK_SUCCESS", i) EXCEPT ![f] = FALSE ] :
           i \in 0 .. (n - 1), f \in AcquireFailable }

Error == [ status |-> "ErrorSurfaceLost", surface |-> {} ]

\* AcquireSurface from step 1 on, for the selected slot s: the result, the
\* collaborator calls, and what the call leaves in the chain.
AcquireSurfaceSteps(s, in) ==
  LET i == AcquiredImageIndex(in)
      reset == ResetFence(usageFence[s])
      Out(res, log, stage, image, didReset, didSubmit, by) ==
        [ result |-> res, calls |-> log, stage |-> stage, image |-> image,
          didReset |-> didReset, didSubmit |-> didSubmit, by |-> by ]
      l1 == << Call("WaitFences", s, 0, Ok(in.waitFences), "-") >>
      l2 == Append(l1, Call("ResetFences", s, 0, Ok(in.resetFences), "-"))
      l3 == Append(l2, CallWith("AcquireNextImageKHR", s, in.index, in.acquire,
                                reset, AcquireImageArgs(s)))
      l4 == Append(l3, Call("images_[]", s, i, "ok", "-"))
      l5 == Append(l4, Call("UsageCommandBuffer.Begin", s, i, Ok(in.begin), reset))
      l6 == Append(l5, Call("InsertImageMemoryBarrier", s, i, Ok(in.barrier),
                            current_pipeline_stage_))
      l7 == Append(l6, Call("UsageCommandBuffer.End", s, i, Ok(in.end), "-"))
      l8 == Append(l7, CallWith("QueueSubmit", s, i, Ok(in.queueSubmit), reset,
                                UsageSubmitArgs(s)))
      l9 == Append(l8, Call("surfaces_[]", s, i, "ok", "-"))
      l10 == Append(l9, Call("getRenderTargetHandle", s, i, Ok(in.getHandle), "-"))
      l11 == Append(l10, Call("updateImageLayout", s, i, "ok", "-"))
      old == current_pipeline_stage_
      new == AcquireDestinationStage
      img == current_image_index_
  IN
  IF WaitFencesFailed(in) THEN Out(Error, l1, old, img, FALSE, FALSE, acquired_slot)
  ELSE IF ResetFencesFailed(in) THEN Out(Error, l2, old, img, FALSE, FALSE, acquired_slot)
  ELSE IF AcquireStatusOf(in.acquire) # "continue"
    THEN Out([ status |-> AcquireStatusOf(in.acquire), surface |-> {} ],
             l3, old, img, TRUE, FALSE, acquired_slot)
  ELSE IF ~ImageIndexInRange(i, images_)
    THEN Out(Error, l3, old, img, TRUE, FALSE, acquired_slot)
  ELSE IF ~in.begin THEN Out(Error, l5, old, img, TRUE, FALSE, acquired_slot)
  ELSE IF ~in.barrier THEN Out(Error, l6, old, img, TRUE, FALSE, acquired_slot)
  ELSE IF ~in.end THEN Out(Error, l7, new, img, TRUE, FALSE, acquired_slot)
  ELSE IF ~in.queueSubmit THEN Out(Error, l8, new, img, TRUE, FALSE, acquired_slot)
  ELSE IF ~in.getHandle THEN Out(Error, l10, new, img, TRUE, TRUE, acquired_slot)
  ELSE Out([ status |-> "Success", surface |-> { i } ], l11, new, i, TRUE, TRUE, { s })

\* AcquireSurface up to the call of WaitFences.
AcquireSurfaceEnter ==
  /\ constructed
  /\ pc = "idle"
  /\ lastOp' = "AcquireSurface"
  /\ entry' = Entry
  /\ calls' = << >>
  /\ IF ~IsValid \/ backbuffers_ = 0
       THEN /\ result' = Error
            /\ pc' = "returned"
            /\ UNCHANGED current_backbuffer_index_
       ELSE /\ current_backbuffer_index_' =
                 GetNextBackbuffer(current_backbuffer_index_, backbuffers_)
            /\ result' = NoResult
            /\ pc' = "WaitFences"
  /\ cycle' = IF cycle = "acquire" THEN "acquire" ELSE "off"
  /\ UNCHANGED << image_stage, image_acquired, usage_semaphore >>
  /\ ChainKept
  /\ UNCHANGED << current_image_index_, current_pipeline_stage_,
                  usageFence, renderFence, acquired_slot, old_swapchain >>
  /\ UNCHANGED << frameVars, exportVars >>

\* AcquireSurface from the return of WaitFences to its own return.
AcquireSurfaceReturn ==
  /\ pc = "WaitFences"
  /\ \E in \in AcquireInputs(images_) :
       LET s == current_backbuffer_index_
           out == AcquireSurfaceSteps(s, in)
       IN
       /\ ~WaitFencesFailed(in) => WaitFencesDone(s)
       /\ result' = out.result
       /\ calls' = out.calls
       /\ current_pipeline_stage_' = out.stage
       /\ current_image_index_' = out.image
       /\ acquired_slot' = out.by
       /\ cycle' = CycleAfter("AcquireSurface", out.result.status = "Success")
       /\ image_stage' =
            ImageStageAfter(AcquiredImageIndex(in),
                            Answered(out.calls, "InsertImageMemoryBarrier", "ok"),
                            AcquireDestinationStage)
       /\ image_acquired' = ImageAcquiredAfter(out.calls)
       /\ usage_semaphore' = UsageSemaphoreAfter(out.calls)
       /\ renderFence' =
            IF out.didReset
              THEN [ renderFence EXCEPT ![s] = ResetFence(@) ]
              ELSE renderFence
       /\ IF out.didSubmit
            THEN \E after \in FenceAfterSubmit(ResetFence(usageFence[s])) :
                   usageFence' = [ usageFence EXCEPT ![s] = after ]
            ELSE usageFence' =
                   IF out.didReset
                     THEN [ usageFence EXCEPT ![s] = ResetFence(@) ]
                     ELSE usageFence
  /\ pc' = "returned"
  /\ ChainKept
  /\ UNCHANGED << current_backbuffer_index_, old_swapchain, lastOp, entry >>
  /\ UNCHANGED << frameVars, exportVars >>

(* -------------------------------- Submit ------------------------------- *)

\* What the collaborators answer during one Submit call.
SubmitAnswers(r) ==
  [ getHandle |-> TRUE, begin |-> TRUE, barrier |-> TRUE, end |-> TRUE,
    queueSubmit |-> TRUE, present |-> r ]

SubmitFailable == { "getHandle", "begin", "barrier", "end", "queueSubmit" }

\* The answers explored: at most one collaborator fails.
SubmitInputs ==
  { SubmitAnswers(r) : r \in PresentResults }
  \cup { [ SubmitAnswers("VK_SUCCESS") EXCEPT ![f] = FALSE ] : f \in SubmitFailable }

\* Submit with the stage a new chain starts with as its destination.
SubmitDestinationStage_Top == "TOP_OF_PIPE"

\* destination_pipeline_stage of Submit.
SubmitDestinationStage == "BOTTOM_OF_PIPE"

\* The present-side submission that waits on the usage semaphore.
RenderSubmitArgs_WaitsUsage(s) ==
  Args({ Resource("usage semaphore", s) },
       { Resource("render semaphore", s) },
       { Resource("render command buffer", s) },
       { Resource("render fence", s) }, {})

\* The arguments of the QueueSubmit of Submit for slot s.
RenderSubmitArgs(s) ==
  Args({}, { Resource("render semaphore", s) },
       { Resource("render command buffer", s) },
       { Resource("render fence", s) }, {})

\* The present request for image i: it waits on the semaphores the queue
\* submission of slot s signals.
PresentArgs(s, i) == Args(RenderSubmitArgs(s).signal, {}, {}, {}, { i })

\* The check that lets a suboptimal present pass.
PresentFailed_ErrorsOnly(r) == r \notin { "VK_SUCCESS", "VK_SUBOPTIMAL_KHR" }

\* The check of the result of QueuePresentKHR.
PresentFailed(r) == r # "VK_SUCCESS"

\* Submit on a valid chain: the result, the collaborator calls, and what the
\* call leaves in the chain.
SubmitSteps(in) ==
  LET s == current_backbuffer_index_
      i == current_image_index_
      f == renderFence[s]
      Out(res, log, stage, didSubmit) ==
        [ result |-> [ status |-> res, surface |-> {} ], calls |-> log,
          stage |-> stage, didSubmit |-> didSubmit ]
      l0 == << Call("surfaces_[]", s, i, "ok", "-"),
               Call("images_[]", s, i, "ok", "-") >>
      l1 == Append(l0, Call("getRenderTargetHandle", s, i, Ok(in.getHandle), "-"))
      l2 == Append(l1, Call("RenderCommandBuffer.Begin", s, i, Ok(in.begin), f))
      l3 == Append(l2, Call("InsertImageMemoryBarrier", s, i, Ok(in.barrier),
                            current_pipeline_stage_))
      l4 == Append(l3, Call("RenderCommandBuffer.End", s, i, Ok(in.end), "-"))
      l5 == Append(l4, CallWith("QueueSubmit", s, i, Ok(in.queueSubmit), f,
                                RenderSubmitArgs(s)))
      l6 == Append(l5, CallWith("QueuePresentKHR", s, i, in.present, f,
                                PresentArgs(s, i)))
      old == current_pipeline_stage_
      new == SubmitDestinationStage
  IN
  IF ~in.getHandle THEN Out("false", l1, old, FALSE)
  ELSE IF ~in.begin THEN Out("false", l2, old, FALSE)
  ELSE IF ~in.barrier THEN Out("false", l3, old, FALSE)
  ELSE IF ~in.end THEN Out("false", l4, new, FALSE)
  ELSE IF ~in.queueSubmit THEN Out("false", l5, new, FALSE)
  ELSE IF PresentFailed(in.present) THEN Out("false", l6, new, TRUE)
  ELSE Out("true", l6, new, TRUE)

Submit ==
  /\ constructed
  /\ pc = "idle"
  /\ lastOp' = "Submit"
  /\ entry' = Entry
  /\ pc' = "returned"
  /\ IF ~IsValid
       THEN /\ result' = [ status |-> "false", surface |-> {} ]
            /\ calls' = << >>
            /\ UNCHANGED << current_pipeline_stage_, renderFence >>
       ELSE \E in \in SubmitInputs :
              LET out == SubmitSteps(in) IN
              /\ result' = out.result
              /\ calls' = out.calls
              /\ current_pipeline_stage_' = out.stage
              /\ IF out.didSubmit
                   THEN \E after \in FenceAfterSubmit(renderFence[current_backbuffer_index_]) :
                          renderFence' =
                            [ renderFence EXCEPT ![current_backbuffer_index_] = after ]
                   ELSE UNCHANGED renderFence
  /\ cycle' = CycleAfter("Submit", result'.status = "true")
  /\ image_stage' =
       ImageStageAfter(current_image_index_,
                       Answered(calls', "InsertImageMemoryBarrier", "ok"),
                       SubmitDestinationStage)
  /\ image_acquired' = ImageAcquiredAfter(calls')
  /\ usage_semaphore' = UsageSemaphoreAfter(calls')
  /\ ChainKept
  /\ UNCHANGED << current_backbuffer_index_, current_image_index_,
                  usageFence, acquired_slot, old_swapchain >>
  /\ UNCHANGED << frameVars, exportVars >>

\* The call returns to the caller, which takes the result; the arguments of
\* the call are gone.
Return ==
  /\ pc = "returned"
  /\ pc' = "idle"
  /\ lastOp' = "none"
  /\ entry' = NoEntry
  /\ result' = NoResult
  /\ calls' = << >>
  /\ old_swapchain' = NoOld
  /\ UNCHANGED << chainVars, current_backbuffer_index_, current_image_index_,
                  current_pipeline_stage_, usageFence, renderFence,
                  acquired_slot, cycle, image_stage, image_acquired,
                  usage_semaphore >>
  /\ UNCHANGED << frameVars, exportVars >>

(* --------------------------------- GPU --------------------------------- *)

\* The GPU completes the acquire-side submission of a slot and signals its
\* usage fence.
GpuCompletesUsage ==
  /\ pc # "returned"
  /\ \E s \in Slots :
       /\ usageFence[s] = "pending"
       /\ usageFence' = [ usageFence EXCEPT ![s] = "signaled" ]
  /\ UNCHANGED << chainVars, current_backbuffer_index_, current_image_index_,
                  current_pipeline_stage_, renderFence, acquired_slot, cycle,
                  image_stage, image_acquired, usage_semaphore, old_swapchain,
                  pc, lastOp, entry, result, calls >>
  /\ UNCHANGED << frameVars, exportVars >>

\* The GPU completes the present-side submission of a slot and signals its
\* render fence.
GpuCompletesRender ==
  /\ pc # "returned"
  /\ \E s \in Slots :
       /\ renderFence[s] = "pending"
       /\ renderFence' = [ renderFence EXCEPT ![s] = "signaled" ]
  /\ UNCHANGED << chainVars, current_backbuffer_index_, current_image_index_,
                  current_pipeline_stage_, usageFence, acquired_slot, cycle,
                  image_stage, image_acquired, usage_semaphore, old_swapchain,
                  pc, lastOp, entry, result, calls >>
  /\ UNCHANGED << frameVars, exportVars >>

Next ==
  \/ Construct
  \/ HandOver
  \/ Destroy
  \/ AcquireSurfaceEnter
  \/ AcquireSurfaceReturn
  \/ Submit
  \/ Return
  \/ GpuCompletesUsage
  \/ GpuCompletesRender

Spec == Init /\ [][Next]_vars

(* ------------------------------ liveness ------------------------------- *)

\* WaitFences returns true and AcquireSurface runs on to its return.
WaitFencesReturns ==
  /\ AcquireSurfaceReturn
  /\ calls'[1].res = "ok"

\* The GPU completes every submission, and a WaitFences whose fences are
\* signaled returns; the platform answers every request within the call.
Fairness ==
  /\ WF_vars(GpuCompletesUsage)
  /\ WF_vars(GpuCompletesRender)
  /\ WF_vars(WaitFencesReturns)

SpecLive == Init /\ [][Next]_vars /\ Fairness

(* ------------------------- per-image stages ---------------------------- *)

\* Negotiation answers with which every step succeeds for n images.
AllOk(n) ==
  [ deviceValid |-> TRUE, surfaceValid |-> TRUE, contextNonNull |-> TRUE,
    capsOk |-> TRUE, formatOk |-> TRUE, presentModeOk |-> TRUE,
    supportQueryOk |-> TRUE, supported |-> TRUE, createOk |-> TRUE,
    countQueryOk |-> TRUE, imagesQueryOk |-> TRUE,
    imageCount |-> n, perImageStep |-> "none", perImageAt |-> 0 ]

\* A valid chain as its constructor leaves it, for every image count, with
\* image wrappers that track the stage of their last barrier, top-of-pipe
\* before the first.
InitImages ==
  /\ constructed = TRUE
  /\ \E n \in 1 .. MaxImages :
       /\ neg = AllOk(n)
       /\ valid_ = VulkanSwapchain(AllOk(n)).ok
       /\ backbuffers_ = VulkanSwapchain(AllOk(n)).backbuffers
       /\ images_ = VulkanSwapchain(AllOk(n)).images
       /\ surfaces_ = VulkanSwapchain(AllOk(n)).surfaces
       /\ image_stage = [ i \in 0 .. (n - 1) |-> "TOP_OF_PIPE" ]
       /\ image_acquired = [ i \in 0 .. (n - 1) |-> FALSE ]
  /\ usage_semaphore = NoSemaphoresFollowed
  /\ current_backbuffer_index_ = 0
  /\ current_image_index_ = 0
  /\ current_pipeline_stage_ = "TOP_OF_PIPE"
  /\ usageFence = [ s \in Slots |-> "signaled" ]
  /\ renderFence = [ s \in Slots |-> "signaled" ]
  /\ acquired_slot = {}
  /\ swapchain_ = TRUE
  /\ capabilities_ = ReportedCapabilities
  /\ surface_format_ = ChosenFormat
  /\ old_swapchain = NoOld
  /\ size = NoSize
  /\ cycle = "acquire"
  /\ pc = "idle"
  /\ lastOp = "none"
  /\ entry = NoEntry
  /\ result = NoResult
  /\ calls = << >>
  /\ NoSurfaceFrame
  /\ NoExportNode

NextImages ==
  \/ AcquireSurfaceEnter
  \/ AcquireSurfaceReturn
  \/ Submit
  \/ Return
  \/ GpuCompletesUsage
  \/ GpuCompletesRender

SpecImages == InitImages /\ [][NextImages]_vars

(* ------------------------- usage semaphores ---------------------------- *)

\* A valid chain as its constructor leaves it, for every image count, with
\* the usage semaphore of every backbuffer followed: created unsignaled.
InitSemaphores ==
  /\ constructed = TRUE
  /\ \E n \in 1 .. MaxImages :
       /\ neg = AllOk(n)
       /\ valid_ = VulkanSwapchain(AllOk(n)).ok
       /\ backbuffers_ = VulkanSwapchain(AllOk(n)).backbuffers
       /\ images_ = VulkanSwapchain(AllOk(n)).images
       /\ surfaces_ = VulkanSwapchain(AllOk(n)).surfaces
       /\ usage_semaphore = [ s \in 0 .. (n - 1) |-> "unsignaled" ]
  /\ image_stage = Untracked
  /\ image_acquired = NoImagesFollowed
  /\ current_backbuffer_index_ = 0
  /\ current_image_index_ = 0
  /\ current_pipeline_stage_ = "TOP_OF_PIPE"
  /\ usageFence = [ s \in Slots |-> "signaled" ]
  /\ renderFence = [ s \in Slots |-> "signaled" ]
  /\ acquired_slot = {}
  /\ swapchain_ = TRUE
  /\ capabilities_ = ReportedCapabilities
  /\ surface_format_ = ChosenFormat
  /\ old_swapchain = NoOld
  /\ size = NoSize
  /\ cycle = "acquire"
  /\ pc = "idle"
  /\ lastOp = "none"
  /\ entry = NoEntry
  /\ result = NoResult
  /\ calls = << >>
  /\ NoSurfaceFrame
  /\ NoExportNode

SpecSemaphores == InitSemaphores /\ [][NextImages]_vars

(* ------------------------------- GetSize ------------------------------- *)

Extents == { Extent(w, h) : w \in 0 .. MaxExtent, h \in 0 .. MaxExtent }

\* A chain whose negotiation got as far as the surface capabilities, for
\* every value the capabilities can have.
InitGetSize ==
  /\ constructed = TRUE
  /\ neg = [ NoAnswers EXCEPT !.deviceValid = TRUE, !.surfaceValid = TRUE,
                              !.contextNonNull = TRUE, !.capsOk = TRUE ]
  /\ valid_ = FALSE
  /\ backbuffers_ = 0
  /\ images_ = 0
  /\ surfaces_ = 0
  /\ current_backbuffer_index_ = 0
  /\ current_image_index_ = 0
  /\ current_pipeline_stage_ = "TOP_OF_PIPE"
  /\ usageFence = [ s \in Slots |-> "signaled" ]
  /\ renderFence = [ s \in Slots |-> "signaled" ]
  /\ acquired_slot = {}
  /\ swapchain_ = FALSE
  /\ capabilities_ \in
       { Capabilities(cur, min, max) : cur \in Extents, min \in Extents,
                                       max \in Extents }
  /\ surface_format_ = ZeroFormat
  /\ old_swapchain = NoOld
  /\ size = NoSize
  /\ cycle = "off"
  /\ image_stage = Untracked
  /\ image_acquired = NoImagesFollowed
  /\ usage_semaphore = NoSemaphoresFollowed
  /\ pc = "idle"
  /\ lastOp = "none"
  /\ entry = NoEntry
  /\ result = NoResult
  /\ calls = << >>
  /\ NoSurfaceFrame
  /\ NoExportNode

\* The constructor from the create info on, for a chain with the recorded
\* capabilities: the chain is created with the extent of the create info and
\* CreateSwapchainImages wraps every image in a render target of the size
\* GetSize returns.  The log carries the two extents in place of a fence.
CreateSwapchainSized ==
  /\ constructed
  /\ pc = "idle"
  /\ calls' = << Call("VkSwapchainCreateInfoKHR", 0, 0, "ok",
                      CreateInfoImageExtent(capabilities_)),
                 Call("CreateSwapchainKHR", 0, 0, "ok", "-"),
                 Call("GetSize", 0, 0, "ok", GetSize(capabilities_)),
                 Call("CreateSkiaSurface", 0, 0, "ok", GetSize(capabilities_)) >>
  /\ lastOp' = "CreateSwapchainKHR"
  /\ pc' = "returned"
  /\ UNCHANGED << constructed, neg, valid_, backbuffers_, images_, surfaces_,
                  swapchain_, capabilities_, surface_format_, old_swapchain,
                  current_backbuffer_index_, current_image_index_,
                  current_pipeline_stage_, usageFence, renderFence,
                  acquired_slot, size, cycle, image_stage, image_acquired,
                  usage_semaphore, entry, result >>
  /\ UNCHANGED << frameVars, exportVars >>

NextGetSize ==
  \/ GetSizeCall
  \/ CreateSwapchainSized
  \/ Return

SpecGetSize == InitGetSize /\ [][NextGetSize]_vars

(* ---------------------------- SurfaceFrame ----------------------------- *)

\* One entry of the log of a frame: the return of a Submit call (op
\* "Submit", by the caller) or an invocation of submit_callback_ (by Submit
\* or by the destructor) with the canvas it was given and what it returned.
FrameEvent(op, by, canvas, ret) ==
  [ op |-> op, by |-> by, canvas |-> canvas, ret |-> ret ]

\* SkiaCanvas(): the canvas of the surface, null without a surface.
SkiaCanvas(surface) == IF surface THEN "canvas" ELSE "nullptr"

\* Submit without its guard.
AlreadySubmitted_Never(sub) == FALSE

\* The guard of Submit.
AlreadySubmitted(sub) == sub

\* PerformSubmit with a callback that is set or not and answers answer: what
\* it returns.
PerformSubmit(callback, answer) ==
  IF ~callback THEN FALSE
  ELSE IF answer THEN TRUE
  ELSE FALSE

\* The destructor invokes the callback.
DropsOnDestruction(callback, sub) == callback

\* The Submit calls made on the frame so far.
SubmitsMade == { k \in DOMAIN frame_log : frame_log[k].op = "Submit" }

\* The constructor, with a surface and a callback that may each be null (the
\* check of the callback is compiled into debug builds only).
NewSurfaceFrame ==
  /\ surface_frame = "none"
  /\ surface_frame' = "alive"
  /\ submitted_' = FALSE
  /\ \E surface \in BOOLEAN : surface_' = surface
  /\ \E callback \in BOOLEAN : submit_callback_' = callback
  /\ frame_log' = << >>
  /\ UNCHANGED << swapchainVars, exportVars >>

\* SurfaceFrame::Submit, with the callback answering as it likes.
SurfaceFrameSubmit ==
  /\ surface_frame = "alive"
  /\ Cardinality(SubmitsMade) < MaxSubmits
  /\ IF AlreadySubmitted(submitted_)
       THEN /\ frame_log' =
                 Append(frame_log, FrameEvent("Submit", "caller", "-", FALSE))
            /\ UNCHANGED submitted_
       ELSE \E answer \in BOOLEAN :
              /\ ~submit_callback_ => ~answer
              /\ submitted_' = PerformSubmit(submit_callback_, answer)
              /\ frame_log' =
                   frame_log
                   \o (IF submit_callback_
                         THEN << FrameEvent("submit_callback_", "Submit",
                                            SkiaCanvas(surface_), answer) >>
                         ELSE << >>)
                   \o << FrameEvent("Submit", "caller", "-",
                                    PerformSubmit(submit_callback_, answer)) >>
  /\ UNCHANGED << surface_frame, surface_, submit_callback_ >>
  /\ UNCHANGED << swapchainVars, exportVars >>

\* The destructor; what the callback returns is not looked at.
SurfaceFrameDestroy ==
  /\ surface_frame = "alive"
  /\ surface_frame' = "destroyed"
  /\ IF DropsOnDestruction(submit_callback_, submitted_)
       THEN \E answer \in BOOLEAN :
              frame_log' =
                Append(frame_log, FrameEvent("submit_callback_", "~SurfaceFrame",
                                             "nullptr", answer))
       ELSE UNCHANGED frame_log
  /\ UNCHANGED << submitted_, surface_, submit_callback_ >>
  /\ UNCHANGED << swapchainVars, exportVars >>

NextSurfaceFrame ==
  \/ NewSurfaceFrame
  \/ SurfaceFrameSubmit
  \/ SurfaceFrameDestroy

SpecSurfaceFrame == Init /\ [][NextSurfaceFrame]_vars

(* ----------------------------- ExportNode ------------------------------ *)

Contexts == 1 .. MaxContexts

\* One entry of the log of an ExportNode: what happened, the scene update
\* context it concerns (0 for none), and for an assertion whether it held,
\* for a Dispose call its argument.
NodeEvent(op, context, ok) == [ op |-> op, context |-> context, ok |-> ok ]

\* Export(std::move(export_token_)) with the token left as it was.
TokenAfterExport_Kept == TRUE

\* export_token_ after Export(std::move(export_token_)): the handle has moved
\* into the call.
TokenAfterExport == FALSE

\* ExportNode::Bind with this context: the members it leaves and what it did.
BindSteps(context) ==
  LET first == export_token_
      node == first \/ node_
  IN
  [ export_token_ |-> IF first THEN TokenAfterExport ELSE export_token_,
    node_ |-> node,
    scene_update_context_ |-> IF first THEN context ELSE scene_update_context_,
    log |-> (IF first
               THEN << NodeEvent("EntityNode", context, TRUE),
                       NodeEvent("Export", context, TRUE),
                       NodeEvent("AddExportNode", context, TRUE) >>
               ELSE << >>)
            \o (IF node
                  THEN << NodeEvent("AddChild", context, TRUE) >>
                  ELSE << >>) ]

\* ExportNode::Dispose(remove): the members it leaves and what it did, the
\* assertion at its start first.
DisposeSteps(remove) ==
  [ export_token_ |-> FALSE,
    node_ |-> FALSE,
    scene_update_context_ |-> 0,
    log |-> << NodeEvent("Dispose", scene_update_context_, remove),
               NodeEvent("Dispose.DCHECK", scene_update_context_,
                         scene_update_context_ # 0 \/ ~node_) >>
            \o (IF remove /\ scene_update_context_ # 0
                  THEN << NodeEvent("RemoveExportNode", scene_update_context_, TRUE) >>
                  ELSE << >>) ]

\* The destructor of an ExportNode with these members: its two assertions.
ExportNodeDestructor(node, context) ==
  << NodeEvent("~ExportNode", context, TRUE),
     NodeEvent("~ExportNode.DCHECK", context, ~node),
     NodeEvent("~ExportNode.DCHECK", context, context = 0) >>

\* A task that destroys the ExportNode it owns without disposing of it.
HolderTask_DestroysOnly == [ dispose |-> FALSE, remove |-> TRUE ]

\* The task the destructor of the holder posts: it owns the ExportNode,
\* calls Dispose(true) on it and destroys it with itself.
HolderTask == [ dispose |-> TRUE, remove |-> TRUE ]

\* The Bind and Dispose calls made on the node so far.
NodeCallsMade ==
  { k \in DOMAIN export_log : export_log[k].op \in { "Bind", "Dispose" } }

\* The constructor of the holder makes the ExportNode from an export token
\* that holds a valid handle or not.
NewExportNodeHolder ==
  /\ holder = "none"
  /\ holder' = "alive"
  /\ export_node_' = TRUE
  /\ export_node' = "alive"
  /\ \E token \in BOOLEAN : export_token_' = token
  /\ node_' = FALSE
  /\ scene_update_context_' = 0
  /\ UNCHANGED << binding, gpu_tasks, export_log >>
  /\ UNCHANGED << swapchainVars, frameVars >>

\* The GPU thread calls ExportNodeHolder::Bind, which reaches the ExportNode
\* through export_node_.
BindEnter ==
  /\ holder = "alive"
  /\ export_node_
  /\ binding = 0
  /\ Cardinality(NodeCallsMade) < MaxNodeCalls
  /\ \E context \in Contexts :
       /\ binding' = context
       /\ export_log' = Append(export_log, NodeEvent("Bind", context, TRUE))
  /\ UNCHANGED << holder, export_node_, export_node, export_token_, node_,
                  scene_update_context_, gpu_tasks >>
  /\ UNCHANGED << swapchainVars, frameVars >>

\* ExportNode::Bind runs on the GPU thread.
Bind ==
  /\ binding # 0
  /\ LET out == BindSteps(binding) IN
       /\ export_token_' = out.export_token_
       /\ node_' = out.node_
       /\ scene_update_context_' = out.scene_update_context_
       /\ export_log' = export_log \o out.log
  /\ binding' = 0
  /\ UNCHANGED << holder, export_node_, export_node, gpu_tasks >>
  /\ UNCHANGED << swapchainVars, frameVars >>

\* ExportNode::Dispose called on the GPU thread by a scene update context
\* that the node registered with, or by any other caller.
Dispose ==
  /\ export_node = "alive"
  /\ binding = 0
  /\ Cardinality(NodeCallsMade) < MaxNodeCalls
  /\ \E remove \in BOOLEAN :
       LET out == DisposeSteps(remove) IN
       /\ export_token_' = out.export_token_
       /\ node_' = out.node_
       /\ scene_update_context_' = out.scene_update_context_
       /\ export_log' = export_log \o out.log
  /\ UNCHANGED << holder, export_node_, export_node, binding, gpu_tasks >>
  /\ UNCHANGED << swapchainVars, frameVars >>

\* The destructor of the holder runs on the UI thread: it moves the
\* ExportNode into a task posted to the GPU thread.
ExportNodeHolderDestroy ==
  /\ holder = "alive"
  /\ holder' = "destroyed"
  /\ export_node_' = FALSE
  /\ gpu_tasks' = Append(gpu_tasks, HolderTask)
  /\ export_log' = Append(export_log, NodeEvent("~ExportNodeHolder", 0, TRUE))
  /\ UNCHANGED << export_node, export_token_, node_, scene_update_context_,
                  binding >>
  /\ UNCHANGED << swapchainVars, frameVars >>

\* The GPU thread, outside any other call, runs the next posted task and
\* destroys it afterwards, and with it the ExportNode the task owns.
RunGpuTask ==
  /\ binding = 0
  /\ gpu_tasks # << >>
  /\ LET task == Head(gpu_tasks)
           out == DisposeSteps(task.remove)
           node == IF task.dispose THEN out.node_ ELSE node_
           context == IF task.dispose
                        THEN out.scene_update_context_
                        ELSE scene_update_context_
       IN
       /\ export_token_' = IF task.dispose THEN out.export_token_ ELSE export_token_
       /\ node_' = node
       /\ scene_update_context_' = context
       /\ export_log' =
            export_log
            \o (IF task.dispose THEN out.log ELSE << >>)
            \o ExportNodeDestructor(node, context)
  /\ gpu_tasks' = Tail(gpu_tasks)
  /\ export_node' = "destroyed"
  /\ UNCHANGED << holder, export_node_, binding >>
  /\ UNCHANGED << swapchainVars, frameVars >>

NextExportNode ==
  \/ NewExportNodeHolder
  \/ BindEnter
  \/ Bind
  \/ Dispose
  \/ ExportNodeHolderDestroy
  \/ RunGpuTask

SpecExportNode == Init /\ [][NextExportNode]_vars

(* ------------------------------- claims -------------------------------- *)

Returned(op) == pc = "returned" /\ lastOp = op

CallsOf(name) == { k \in DOMAIN calls : calls[k].call = name }

\* The calls that record into a slot's command buffer or hand one of its
\* command buffers, semaphores or fences to the platform.
SlotResourceCalls ==
  { "AcquireNextImageKHR", "UsageCommandBuffer.Begin", "RenderCommandBuffer.Begin",
    "QueueSubmit", "QueuePresentKHR" }

\* C1: over any sequence of AcquireSurface and Submit calls, no call records
\* into a slot's command buffer or hands a command buffer or semaphore of the
\* slot to the platform while the fence of the previous use of that resource
\* is still pending, that is, has not signalled.
C1_NoReuseBeforeFenceSignalled ==
  \A k \in DOMAIN calls :
    calls[k].call \in SlotResourceCalls => calls[k].pre # "pending"

\* C2: at most one cycle is in flight per slot: every fence handed to
\* QueueSubmit is unsignaled, neither signaled nor pending from an earlier
\* submission.
C2_FenceUnsignaledAtQueueSubmit ==
  \A k \in CallsOf("QueueSubmit") : calls[k].pre = "unsignaled"

\* C3: whenever Submit runs on an image that an AcquireSurface call acquired,
\* the slot whose render resources Submit uses is the slot that call used.
C3_SubmitUsesAcquiringSlot ==
  (Returned("Submit") /\ calls # << >> /\ acquired_slot # {}) =>
    \A k \in DOMAIN calls : acquired_slot = { calls[k].slot }

\* C4: AcquireSurface on an invalid chain returns ErrorSurfaceLost with no
\* render target, calls no collaborator, and leaves the slot index, the
\* current image index and the tracked pipeline stage as they were.
C4_AcquireOnInvalidChain ==
  (Returned("AcquireSurface") /\ ~valid_) =>
    /\ result = [ status |-> "ErrorSurfaceLost", surface |-> {} ]
    /\ calls = << >>
    /\ current_backbuffer_index_ = entry.slot
    /\ current_image_index_ = entry.image
    /\ current_pipeline_stage_ = entry.stage

\* AcquireSurface returned from an invalid chain that holds a backbuffer.
C4_Witness ==
  Returned("AcquireSurface") /\ ~valid_ /\ backbuffers_ > 0

\* k successive selections of the next backbuffer, starting after slot cur.
RECURSIVE SlotAfter(_, _, _)
SlotAfter(k, cur, n) ==
  IF k = 0 THEN cur ELSE SlotAfter(k - 1, GetNextBackbuffer(cur, n), n)

\* C5: on a valid chain of ring size N every AcquireSurface call has advanced
\* the slot index by exactly 1 modulo N by the time it waits for the fences,
\* and the index stays there whatever the call returns; no other call moves
\* it; so N selections lead back to the same slot.
C5_SlotAdvancesByOne ==
  valid_ =>
    /\ (lastOp = "AcquireSurface" /\ pc \in { "WaitFences", "returned" }) =>
         current_backbuffer_index_ = (entry.slot + 1) % backbuffers_
    /\ (pc = "WaitFences") => calls = << >>
    /\ Returned("Submit") => current_backbuffer_index_ = entry.slot
    /\ SlotAfter(backbuffers_, current_backbuffer_index_, backbuffers_)
         = current_backbuffer_index_

\* A failed AcquireSurface on a ring of two or more slots wrapped the index.
C5_Witness ==
  /\ Returned("AcquireSurface") /\ valid_ /\ backbuffers_ >= 2
  /\ result.status # "Success"
  /\ entry.slot = backbuffers_ - 1 /\ current_backbuffer_index_ = 0

\* C6: in every AcquireSurface call ResetFences directly follows a WaitFences
\* on the same slot that returned successfully; while WaitFences has not
\* returned no collaborator has been called, and after a failed WaitFences
\* nothing else is called.
C6_ResetOnlyAfterWait ==
  /\ \A k \in CallsOf("ResetFences") \cup CallsOf("AcquireNextImageKHR") :
       /\ calls[1].call = "WaitFences"
       /\ calls[1].res = "ok"
       /\ calls[1].slot = calls[k].slot
       /\ k > 1
  /\ \A k \in CallsOf("ResetFences") : k = 2
  /\ \A k \in CallsOf("WaitFences") :
       /\ k = 1
       /\ calls[k].res # "ok" => Len(calls) = 1
  /\ pc = "WaitFences" => calls = << >>

\* An AcquireSurface call reached ResetFences.
C6_Witness ==
  Returned("AcquireSurface") /\ CallsOf("ResetFences") # {}

\* C7: a valid chain has as many backbuffers, images and render targets as
\* the platform reported images, and at least one.
C7_SizesEqualImageCount ==
  valid_ =>
    /\ backbuffers_ = neg.imageCount
    /\ images_ = neg.imageCount
    /\ surfaces_ = neg.imageCount
    /\ neg.imageCount >= 1

\* A valid chain with more than one image.
C7_Witness == valid_ /\ neg.imageCount >= 2

\* Every negotiation step succeeded: device, surface and context valid, the
\* capabilities, format and present mode obtained, presentation supported,
\* the swapchain created, its images obtained (at least one), and a
\* backbuffer, image wrapper and render target built for each.
AllStepsSucceeded(in) ==
  /\ in.deviceValid /\ in.surfaceValid /\ in.contextNonNull
  /\ in.capsOk /\ in.formatOk /\ in.presentModeOk
  /\ in.supportQueryOk /\ in.supported
  /\ in.createOk
  /\ in.countQueryOk /\ in.imagesQueryOk /\ in.imageCount >= 1
  /\ in.perImageStep = "none"

\* C8: after negotiation IsValid() is true if and only if every negotiation
\* step succeeded; one failing step makes it false.
C8_ValidIffAllStepsSucceeded ==
  constructed => (valid_ <=> AllStepsSucceeded(neg))

\* Negotiation in which only the presentation-support answer was negative.
C8_Witness ==
  /\ constructed /\ ~valid_
  /\ FailedFlags(neg) = { "supported" }
  /\ neg.imageCount >= 1 /\ neg.perImageStep = "none"

\* C9: the status of AcquireNextImageKHR decides the outcome: success goes on
\* to the index check and the recording, out-of-date returns
\* ErrorSurfaceOutOfDate, surface-lost and every other status return
\* ErrorSurfaceLost, each without a further call; and ErrorSurfaceOutOfDate
\* is returned only for the out-of-date status.
C9_AcquireStatusMapping ==
  /\ \A k \in CallsOf("AcquireNextImageKHR") :
       LET r == calls[k].res IN
       /\ r = "VK_ERROR_OUT_OF_DATE_KHR" =>
            result.status = "ErrorSurfaceOutOfDate" /\ k = Len(calls)
       /\ r \notin { "VK_SUCCESS", "VK_ERROR_OUT_OF_DATE_KHR" } =>
            result.status = "ErrorSurfaceLost" /\ k = Len(calls)
       /\ (r = "VK_SUCCESS" /\ calls[k].idx < images_) =>
            /\ Len(calls) > k + 1
            /\ calls[k + 2].call = "UsageCommandBuffer.Begin"
  /\ result.status = "ErrorSurfaceOutOfDate" =>
       /\ Returned("AcquireSurface")
       /\ calls # << >>
       /\ calls[Len(calls)].call = "AcquireNextImageKHR"
       /\ calls[Len(calls)].res = "VK_ERROR_OUT_OF_DATE_KHR"

\* AcquireSurface returned after the platform answered suboptimal.
C9_Witness ==
  /\ Returned("AcquireSurface")
  /\ \E k \in CallsOf("AcquireNextImageKHR") : calls[k].res = "VK_SUBOPTIMAL_KHR"

\* C10: when the acquire succeeds with an image index not below the number
\* of images, AcquireSurface returns ErrorSurfaceLost and calls nothing more:
\* no image or render target is indexed, no barrier recorded, nothing
\* submitted; the current image index stays as it was.
C10_IndexOutOfRange ==
  \A k \in CallsOf("AcquireNextImageKHR") :
    (calls[k].res = "VK_SUCCESS" /\ calls[k].idx >= images_) =>
      /\ result = [ status |-> "ErrorSurfaceLost", surface |-> {} ]
      /\ k = Len(calls)
      /\ current_image_index_ = entry.image
      /\ \A j \in DOMAIN calls :
           calls[j].call \notin { "images_[]", "surfaces_[]", "QueueSubmit",
                                  "InsertImageMemoryBarrier",
                                  "UsageCommandBuffer.Begin" }

\* The platform answered success with the index equal to the image count.
C10_Witness ==
  /\ Returned("AcquireSurface")
  /\ \E k \in CallsOf("AcquireNextImageKHR") :
       calls[k].res = "VK_SUCCESS" /\ calls[k].idx = images_

\* Every collaborator called so far in the call answered success.
AllSucceeded ==
  \A k \in DOMAIN calls : calls[k].res \in { "ok", "VK_SUCCESS" }

\* C11: on a valid chain, an AcquireSurface call in which every collaborator
\* answers success (the platform handing back an index of the chain) returns
\* Success with a render target, and a Submit call in which every
\* collaborator answers success returns true; and in every frame of a loop
\* of such calls, however long, the fences AcquireSurface waits for are
\* signaled or about to be signaled by the GPU, so the call returns.
C11_RoundTripSucceeds ==
  /\ (Returned("AcquireSurface") /\ valid_ /\ AllSucceeded
        /\ \A k \in CallsOf("AcquireNextImageKHR") : calls[k].idx < images_) =>
       /\ result.status = "Success"
       /\ result.surface = { current_image_index_ }
       /\ cycle \in { "submit", "off" }
  /\ (Returned("Submit") /\ valid_ /\ AllSucceeded) => result.status = "true"
  /\ (pc = "WaitFences" /\ cycle = "acquire") =>
       /\ usageFence[current_backbuffer_index_] # "unsignaled"
       /\ renderFence[current_backbuffer_index_] # "unsignaled"

\* The Submit of the second frame or a later one of such a loop on a chain
\* of two images returned true.
C11_Witness ==
  /\ Returned("Submit") /\ cycle = "acquire" /\ result.status = "true"
  /\ backbuffers_ = 2 /\ entry.slot = 0

\* C12: Submit on an invalid chain returns false, calls no collaborator (no
\* command recorded, nothing submitted to the queue, nothing presented) and
\* leaves the indices, the tracked stage, the fixed members and the fences
\* of the chain as they were.
C12_SubmitOnInvalidChain ==
  (Returned("Submit") /\ ~valid_) =>
    /\ result = [ status |-> "false", surface |-> {} ]
    /\ calls = << >>
    /\ Entry = entry
    /\ \A s \in Slots : usageFence[s] = "signaled" /\ renderFence[s] = "signaled"
    /\ acquired_slot = {}

\* Submit returned from an invalid chain that holds a swapchain handle and a
\* backbuffer.
C12_Witness ==
  Returned("Submit") /\ ~valid_ /\ swapchain_ /\ backbuffers_ > 0

\* C13: no call retries: a call makes at most one AcquireNextImageKHR, one
\* queue submission and one QueuePresentKHR, AcquireSurface presents nothing
\* and Submit acquires nothing; every present status other than success is
\* the last call of Submit, which returns false.
C13_NoRetry ==
  /\ \A name \in { "AcquireNextImageKHR", "QueueSubmit", "QueuePresentKHR" } :
       Cardinality(CallsOf(name)) <= 1
  /\ Returned("AcquireSurface") => CallsOf("QueuePresentKHR") = {}
  /\ Returned("Submit") => CallsOf("AcquireNextImageKHR") = {}
  /\ \A k \in CallsOf("QueuePresentKHR") :
       calls[k].res # "VK_SUCCESS" =>
         /\ Returned("Submit")
         /\ result.status = "false"
         /\ k = Len(calls)

\* Submit returned after the platform answered the present with suboptimal.
C13_Witness ==
  /\ Returned("Submit")
  /\ \E k \in CallsOf("QueuePresentKHR") : calls[k].res = "VK_SUBOPTIMAL_KHR"

\* C14: whenever a swapchain handle is destroyed, by the destructor of its
\* chain or as the predecessor handed to a negotiation, the call right
\* before DestroySwapchainKHR is the device-idle wait of that teardown; and
\* the teardown of a chain that holds a handle destroys it.
C14_DestroyAfterWaitIdle ==
  /\ \A k \in CallsOf("DestroySwapchainKHR") :
       /\ k > 1
       /\ calls[k - 1].call = "WaitIdle"
  /\ Cardinality(CallsOf("DestroySwapchainKHR")) <= 1
  /\ Returned("VulkanSwapchain") =>
       (CallsOf("DestroySwapchainKHR") # {}
          <=> (old_swapchain.given /\ old_swapchain.handle))
  /\ Returned("~VulkanSwapchain") =>
       (CallsOf("DestroySwapchainKHR") # {} <=> entry.chain[2])

\* The handle of a predecessor on which a frame had been submitted was
\* destroyed when the negotiation it was handed to returned.
C14_Witness ==
  /\ Returned("VulkanSwapchain")
  /\ old_swapchain.given /\ old_swapchain.stage = "BOTTOM_OF_PIPE"
  /\ CallsOf("DestroySwapchainKHR") # {}

C16_GetSizeClamps ==
  LET c == capabilities_
      Lower(a, b) == IF a < b THEN a ELSE b
      Higher(a, b) == IF a > b THEN a ELSE b
  IN
  (/\ Returned("GetSize")
   /\ c.minImageExtent.width <= c.maxImageExtent.width
   /\ c.minImageExtent.height <= c.maxImageExtent.height) =>
    /\ size.width = Lower(Higher(c.currentExtent.width, c.minImageExtent.width),
                          c.maxImageExtent.width)
    /\ size.height = Lower(Higher(c.currentExtent.height, c.minImageExtent.height),
                           c.maxImageExtent.height)

\* GetSize returned for a current extent too wide and not high enough.
C16_Witness ==
  /\ Returned("GetSize")
  /\ capabilities_.minImageExtent.width <= capabilities_.maxImageExtent.width
  /\ capabilities_.minImageExtent.height <= capabilities_.maxImageExtent.height
  /\ capabilities_.currentExtent.width > capabilities_.maxImageExtent.width
  /\ capabilities_.currentExtent.height < capabilities_.minImageExtent.height

\* The calls of the loop of CreateSwapchainImages.
PerImageCallNames == { "VulkanBackbuffer", "VulkanImage", "CreateSkiaSurface" }

\* C17: a negotiation whose swapchain reports zero images, whose image query
\* fails or whose surface has no supported format leaves the chain invalid;
\* a valid chain holds at least one image; and the constructor builds
\* something only for an image the platform reported.
C17_NoValidChainWithoutImages ==
  /\ constructed =>
       /\ (neg.imageCount = 0 \/ ~neg.countQueryOk \/ ~neg.imagesQueryOk
             \/ ~neg.formatOk) => ~valid_
       /\ valid_ => (backbuffers_ >= 1 /\ images_ >= 1 /\ surfaces_ >= 1)
  /\ Returned("VulkanSwapchain") =>
       \A k \in DOMAIN calls :
         calls[k].call \in PerImageCallNames =>
           /\ neg.countQueryOk /\ neg.imagesQueryOk
           /\ calls[k].idx < neg.imageCount

\* A negotiation created the swapchain and the platform reported no image.
C17_Witness ==
  /\ Returned("VulkanSwapchain") /\ swapchain_
  /\ neg.countQueryOk /\ neg.imageCount = 0

C19_InvalidChainHoldsNothing ==
  (constructed /\ ~valid_) =>
    backbuffers_ = 0 /\ images_ = 0 /\ surfaces_ = 0

\* C20: AcquireSurface and Submit, from their first step to their return and
\* whatever they return, leave the validity flag, the swapchain handle, the
\* chosen format, the capabilities and the sizes of the three vectors as
\* they found them; IsValid() of a valid chain stays true.
C20_FrameCallsKeepChain ==
  lastOp \in { "AcquireSurface", "Submit" } =>
    /\ entry.chain = Chain
    /\ entry.chain[1] => IsValid

\* Submit and AcquireSurface returned an error on a valid chain after
\* calling collaborators.
C20_Witness ==
  /\ lastOp \in { "AcquireSurface", "Submit" } /\ pc = "returned"
  /\ valid_ /\ calls # << >>
  /\ result.status \in { "false", "ErrorSurfaceLost", "ErrorSurfaceOutOfDate" }

\* C21: the source stage of the barrier AcquireSurface records for an image
\* is the stage of the last barrier recorded on that image, top-of-pipe when
\* none was, whatever was recorded on the other images of the chain.
C21_BarrierSourceIsImageStage ==
  Returned("AcquireSurface") =>
    \A k \in CallsOf("InsertImageMemoryBarrier") :
      /\ calls[k].idx \in DOMAIN entry.image_stage
      /\ calls[k].pre = entry.image_stage[calls[k].idx]

\* C22: the queue submission of every AcquireSurface call is made for the
\* slot the call selected, after the AcquireNextImageKHR of the call; it
\* waits on exactly the usage semaphore of that slot, the semaphore handed
\* to AcquireNextImageKHR, signals no semaphore, submits exactly the usage
\* command buffer of the slot and signals its usage fence.
C22_UsageSubmitArguments ==
  Returned("AcquireSurface") =>
    \A k \in CallsOf("QueueSubmit") :
      LET s == calls[k].slot
          a == calls[k].args
      IN
      /\ s = current_backbuffer_index_
      /\ a.wait = { Resource("usage semaphore", s) }
      /\ a.signal = {}
      /\ a.buffers = { Resource("usage command buffer", s) }
      /\ a.fence = { Resource("usage fence", s) }
      /\ CallsOf("AcquireNextImageKHR") # {}
      /\ \A j \in CallsOf("AcquireNextImageKHR") :
           j < k /\ calls[j].args.signal = a.wait /\ calls[j].args.fence = {}

\* AcquireSurface reached its queue submission for the second slot of a chain.
C22_Witness ==
  /\ Returned("AcquireSurface") /\ current_backbuffer_index_ = 1
  /\ CallsOf("QueueSubmit") # {}

\* C23: the queue submission of every Submit call waits on no semaphore,
\* signals exactly the render semaphore and the render fence of the current
\* slot and submits its render command buffer; the present request comes
\* right after a queue submission that succeeded, waits on exactly that
\* render semaphore and names exactly the current image index.
C23_RenderSubmitAndPresentArguments ==
  Returned("Submit") =>
    /\ \A k \in CallsOf("QueueSubmit") :
         LET s == calls[k].slot
             a == calls[k].args
         IN
         /\ s = current_backbuffer_index_
         /\ a.wait = {}
         /\ a.signal = { Resource("render semaphore", s) }
         /\ a.buffers = { Resource("render command buffer", s) }
         /\ a.fence = { Resource("render fence", s) }
    /\ \A p \in CallsOf("QueuePresentKHR") :
         /\ p > 1
         /\ calls[p - 1].call = "QueueSubmit"
         /\ calls[p - 1].res = "ok"
         /\ calls[p].args.wait =
              { Resource("render semaphore", current_backbuffer_index_) }
         /\ calls[p].args.images = { current_image_index_ }

\* Submit presented the second image from the second slot.
C23_Witness ==
  /\ Returned("Submit") /\ CallsOf("QueuePresentKHR") # {}
  /\ current_backbuffer_index_ = 1 /\ current_image_index_ = 1

\* The steps of AcquireSurface after the selection of the slot, and of Submit.
AcquireOrder ==
  << "WaitFences", "ResetFences", "AcquireNextImageKHR", "images_[]",
     "UsageCommandBuffer.Begin", "InsertImageMemoryBarrier",
     "UsageCommandBuffer.End", "QueueSubmit", "surfaces_[]",
     "getRenderTargetHandle", "updateImageLayout" >>

SubmitOrder ==
  << "surfaces_[]", "images_[]", "getRenderTargetHandle",
     "RenderCommandBuffer.Begin", "InsertImageMemoryBarrier",
     "RenderCommandBuffer.End", "QueueSubmit", "QueuePresentKHR" >>

\* Step k of the call failed: the collaborator answered a failure, or the
\* platform handed back an image index the chain does not have.
StepFailed(k) ==
  \/ calls[k].res \notin { "ok", "VK_SUCCESS" }
  \/ calls[k].call = "AcquireNextImageKHR" /\ calls[k].idx >= images_

\* The call ran a prefix of the steps of order, each for the current slot,
\* and stopped before the end only at a step that failed, which is its last.
RanInOrder(order) ==
  /\ Len(calls) <= Len(order)
  /\ \A k \in DOMAIN calls :
       /\ calls[k].call = order[k]
       /\ calls[k].slot = current_backbuffer_index_
       /\ StepFailed(k) => k = Len(calls)
  /\ (valid_ /\ Len(calls) < Len(order)) =>
       (calls # << >> /\ StepFailed(Len(calls)))

\* C24: AcquireSurface and Submit run their steps in the fixed order and are
\* terminal on the first failure: the step that fails is the last step of
\* the call, which returns an error; a call none of whose steps fails runs
\* them all and succeeds, AcquireSurface recording the current image last.
C24_TerminalOnFirstFailure ==
  /\ Returned("AcquireSurface") =>
       /\ RanInOrder(AcquireOrder)
       /\ (\E k \in DOMAIN calls : StepFailed(k)) =>
            (result.status # "Success" /\ result.surface = {})
       /\ (valid_ /\ \A k \in DOMAIN calls : ~StepFailed(k)) =>
            (result.status = "Success" /\ Len(calls) = Len(AcquireOrder))
  /\ Returned("Submit") =>
       /\ RanInOrder(SubmitOrder)
       /\ (\E k \in DOMAIN calls : StepFailed(k)) => result.status = "false"
       /\ (valid_ /\ \A k \in DOMAIN calls : ~StepFailed(k)) =>
            (result.status = "true" /\ Len(calls) = Len(SubmitOrder))

\* Submit stopped at a Begin that failed.
C24_Witness ==
  /\ Returned("Submit") /\ Len(calls) = 4
  /\ calls[4].call = "RenderCommandBuffer.Begin" /\ calls[4].res = "failed"

\* C25: a successful AcquireSurface leaves the tracked stage at
\* color-attachment-output and a successful Submit at bottom-of-pipe; every
\* barrier takes the stage tracked when its call began as its source, so in
\* a loop of successful frames the acquire-side barrier of a frame that
\* follows a Submit has bottom-of-pipe as its source; and once a barrier
\* has been recorded the tracked stage is never top-of-pipe again.
C25_TrackedStage ==
  /\ (Returned("AcquireSurface") /\ result.status = "Success") =>
       current_pipeline_stage_ = "COLOR_ATTACHMENT_OUTPUT"
  /\ (Returned("Submit") /\ result.status = "true") =>
       current_pipeline_stage_ = "BOTTOM_OF_PIPE"
  /\ lastOp \in { "AcquireSurface", "Submit" } =>
       /\ \A k \in CallsOf("InsertImageMemoryBarrier") :
            /\ calls[k].pre = entry.stage
            /\ calls[k].res = "ok" => current_pipeline_stage_ # "TOP_OF_PIPE"
       /\ entry.stage # "TOP_OF_PIPE" => current_pipeline_stage_ # "TOP_OF_PIPE"
  /\ (Returned("AcquireSurface") /\ cycle = "submit") =>
       entry.stage \in { "TOP_OF_PIPE", "BOTTOM_OF_PIPE" }
  /\ (constructed /\ pc = "idle" /\ cycle = "acquire") =>
       current_pipeline_stage_ \in { "TOP_OF_PIPE", "BOTTOM_OF_PIPE" }

\* In a loop of successful frames an AcquireSurface that followed a Submit
\* succeeded.
C25_Witness ==
  /\ Returned("AcquireSurface") /\ cycle = "submit"
  /\ entry.stage = "BOTTOM_OF_PIPE"
  /\ current_pipeline_stage_ = "COLOR_ATTACHMENT_OUTPUT"

\* The steps of negotiation up to the creation of the swapchain.
NegotiationOrder ==
  << "IsValid", "GetSurfaceCapabilities", "ChooseSurfaceFormat",
     "ChoosePresentMode", "GetPhysicalDeviceSurfaceSupportKHR",
     "VkSwapchainCreateInfoKHR", "CreateSwapchainKHR" >>

\* The calls of the teardown of a predecessor.
TeardownCalls == { "WaitIdle", "DestroySwapchainKHR" }

\* Check k of the negotiation failed.
CheckFailed(k) ==
  \/ calls[k].res = "failed"
  \/ calls[k].call = "GetPhysicalDeviceSurfaceSupportKHR" /\ calls[k].pre = "VK_FALSE"

\* C26: negotiation makes its calls in the fixed order, and after a check
\* that failed it makes no further call (only the teardown of the
\* predecessor follows); CreateSwapchainKHR is called only when device,
\* surface and context are valid and the queue family was reported able to
\* present to the surface.
C26_NegotiationFailsFast ==
  Returned("VulkanSwapchain") =>
    /\ \A k \in DOMAIN calls :
         /\ (k <= Len(NegotiationOrder) /\ calls[k].call \notin TeardownCalls) =>
              calls[k].call = NegotiationOrder[k]
         /\ (calls[k].call \notin TeardownCalls /\ CheckFailed(k)) =>
              \A j \in DOMAIN calls : j > k => calls[j].call \in TeardownCalls
    /\ calls # << >>
    /\ CallsOf("CreateSwapchainKHR") # {} =>
         /\ neg.deviceValid /\ neg.surfaceValid /\ neg.contextNonNull
         /\ neg.capsOk /\ neg.formatOk /\ neg.presentModeOk
         /\ neg.supportQueryOk /\ neg.supported

\* A negotiation stopped at a presentation-support query that succeeded and
\* reported that the queue family cannot present.
C26_Witness ==
  /\ Returned("VulkanSwapchain") /\ Len(calls) >= 5
  /\ calls[5].res = "ok" /\ calls[5].pre = "VK_FALSE"
  /\ CallsOf("CreateSwapchainKHR") = {}

C29_ImageIndexChangesOnSuccess ==
  /\ Returned("AcquireSurface") =>
       IF result.status = "Success"
         THEN /\ CallsOf("AcquireNextImageKHR") # {}
              /\ \A k \in CallsOf("AcquireNextImageKHR") :
                   current_image_index_ = calls[k].idx
         ELSE current_image_index_ = entry.image
  /\ pc = "WaitFences" => current_image_index_ = entry.image
  /\ Returned("Submit") => current_image_index_ = entry.image

\* A successful AcquireSurface changed the current image index.
C29_Witness ==
  /\ Returned("AcquireSurface") /\ result.status = "Success"
  /\ current_image_index_ # entry.image

\* C30: on a valid chain the current backbuffer index is below the number
\* of backbuffers and the current image index below the number of images
\* and of render targets, so every call of Submit, also one before any
\* AcquireSurface, is made for a slot and an image the chain has.
C30_IndicesInBounds ==
  valid_ =>
    /\ current_backbuffer_index_ < backbuffers_
    /\ current_image_index_ < images_
    /\ current_image_index_ < surfaces_
    /\ Returned("Submit") =>
         \A k \in DOMAIN calls :
           calls[k].slot < backbuffers_ /\ calls[k].idx < images_

\* Submit ran on a valid chain on which no AcquireSurface had succeeded.
C30_Witness ==
  /\ Returned("Submit") /\ valid_ /\ acquired_slot = {}
  /\ calls # << >>

\* C28: with the GPU completing every submission and the platform answering
\* every request, every AcquireSurface call that waits for the fences of
\* its slot returns, whatever calls came before.
C28_AcquireSurfaceReturns ==
  [](pc = "WaitFences" => <>(pc = "returned"))

\* C31: every QueuePresentKHR of Submit names only images that the platform
\* has handed out through an AcquireNextImageKHR that took effect and has not
\* got back through a present since.
C31_PresentsAcquiredImage ==
  Returned("Submit") =>
    \A k \in CallsOf("QueuePresentKHR") :
      \A i \in calls[k].args.images :
        i \in DOMAIN entry.image_acquired /\ entry.image_acquired[i]

\* The usage semaphores a call of the log signals or waits on.
UsageSemaphoresOf(k, field) ==
  { sem \in calls[k].args[field] : sem[1] = "usage semaphore" }

C33_StageKeptWithoutSubmission ==
  (Returned("AcquireSurface") \/ Returned("Submit")) =>
    \A k \in DOMAIN calls :
      ( /\ k = Len(calls)
        /\ calls[k].call \in { "UsageCommandBuffer.End", "RenderCommandBuffer.End",
                               "QueueSubmit" }
        /\ calls[k].res = "failed" ) =>
        current_pipeline_stage_ = entry.stage

\* C34: the image extent the chain is created with equals the size GetSize
\* returns, with which the render targets are built, for every capabilities
\* value.
C34_CreationExtentIsGetSize ==
  Returned("CreateSwapchainKHR") =>
    \A k \in CallsOf("VkSwapchainCreateInfoKHR") :
      /\ calls[k].pre = GetSize(capabilities_)
      /\ \A j \in CallsOf("CreateSkiaSurface") : calls[k].pre = calls[j].pre

\* C35: a negotiation handed a predecessor that holds a handle ends with the
\* teardown of the predecessor, the device-idle wait and then the
\* destruction of its handle, whether the new chain is valid or the
\* negotiation failed at any step; once the call is over no predecessor is
\* left beside the new chain.
C35_PredecessorTornDown ==
  /\ (Returned("VulkanSwapchain") /\ old_swapchain.given /\ old_swapchain.handle) =>
       /\ Len(calls) >= 2
       /\ calls[Len(calls) - 1].call = "WaitIdle"
       /\ calls[Len(calls)].call = "DestroySwapchainKHR"
       /\ Cardinality(CallsOf("DestroySwapchainKHR")) = 1
  /\ (constructed /\ pc = "idle") => old_swapchain = NoOld

\* A negotiation handed a valid predecessor failed before it created a
\* swapchain: the predecessor was torn down and the new chain is invalid.
C35_Witness ==
  /\ Returned("VulkanSwapchain")
  /\ old_swapchain.given /\ old_swapchain.valid /\ old_swapchain.handle
  /\ ~valid_
  /\ CallsOf("CreateSwapchainKHR") = {}
  /\ CallsOf("DestroySwapchainKHR") # {}

\* A Submit call of the frame returned true before entry k of the log.
SubmittedBefore(k) ==
  \E j \in SubmitsMade : j < k /\ frame_log[j].ret

\* Entry k of the log is the return of a Submit call that invoked the
\* callback.
InvokedCallback(k) ==
  /\ k > 1
  /\ frame_log[k - 1].op = "submit_callback_"
  /\ frame_log[k - 1].by = "Submit"

\* C36: at most one Submit call of a frame returns true; a Submit call after
\* one that returned true returns false and does not invoke the callback; a
\* Submit call all of whose predecessors returned false invokes the callback,
\* if there is one, and returns what the callback returned.
C36_SubmitsAtMostOnce ==
  /\ Cardinality({ k \in SubmitsMade : frame_log[k].ret }) <= 1
  /\ \A k \in SubmitsMade :
       IF SubmittedBefore(k)
         THEN ~frame_log[k].ret /\ ~InvokedCallback(k)
         ELSE /\ submit_callback_ =>
                   (InvokedCallback(k) /\ frame_log[k].ret = frame_log[k - 1].ret)
              /\ ~submit_callback_ => (~frame_log[k].ret /\ ~InvokedCallback(k))
  /\ \A k \in DOMAIN frame_log :
       (frame_log[k].op = "submit_callback_" /\ frame_log[k].by = "Submit") =>
         (k + 1 \in SubmitsMade)

\* A Submit whose callback returned false was followed by a Submit that
\* invoked the callback again and returned true, and by one more Submit.
C36_Witness ==
  /\ Len(frame_log) = 5
  /\ frame_log[2].op = "Submit" /\ ~frame_log[2].ret /\ InvokedCallback(2)
  /\ frame_log[4].op = "Submit" /\ frame_log[4].ret /\ InvokedCallback(4)
  /\ frame_log[5].op = "Submit" /\ ~frame_log[5].ret

\* C37: the destructor of a frame invokes the callback with a null canvas
\* only if no Submit call of the frame returned true.
C37_NoDropAfterSubmit ==
  \A k \in DOMAIN frame_log :
    frame_log[k].by = "~SurfaceFrame" => ~SubmittedBefore(k)

\* The entries of the log of the ExportNode with this op.
NodeEvents(op) == { k \in DOMAIN export_log : export_log[k].op = op }

\* C38: in every state a set scene_update_context_ comes with a set node_ and
\* the assertion at the start of every Dispose call held; the node was
\* created and registered with a scene update context at most once, in its
\* first Bind call, and never after a Dispose call.
C38_RegistersOnceOnFirstBind ==
  /\ scene_update_context_ # 0 => node_
  /\ \A k \in NodeEvents("Dispose.DCHECK") : export_log[k].ok
  /\ Cardinality(NodeEvents("EntityNode")) <= 1
  /\ Cardinality(NodeEvents("AddExportNode")) <= 1
  /\ \A k \in NodeEvents("EntityNode") \cup NodeEvents("AddExportNode") :
       /\ Cardinality({ b \in NodeEvents("Bind") : b < k }) = 1
       /\ \A d \in NodeEvents("Dispose") : k < d

\* The node was registered by its first Bind, disposed of, and bound again,
\* with another context.
C38_Witness ==
  \E a \in NodeEvents("AddExportNode"), d \in NodeEvents("Dispose"),
     b \in NodeEvents("Bind") :
    /\ a < d
    /\ d < b
    /\ export_log[b].context # export_log[a].context
    /\ binding = 0
    /\ export_log[Len(export_log)].op = "Bind"

\* C39: an ExportNode is destroyed only after its holder was, by the task
\* the holder posted, which has disposed of it on the GPU thread first; the
\* two assertions of its destructor hold.
C39_DisposedBeforeDestroyed ==
  /\ export_node = "destroyed" => holder = "destroyed"
  /\ \A k \in NodeEvents("~ExportNode.DCHECK") : export_log[k].ok
  /\ \A k \in NodeEvents("~ExportNode") :
       /\ \E h \in NodeEvents("~ExportNodeHolder") : h < k
       /\ \E d \in NodeEvents("Dispose") :
            /\ d < k
            /\ export_log[d].ok
            /\ \A j \in (d + 1) .. (k - 1) :
                 export_log[j].op \in { "Dispose.DCHECK", "RemoveExportNode" }

\* The holder was destroyed while the GPU thread was in the first Bind of
\* the node; the Bind went on to register the node, and the posted task has
\* removed it from the context and destroyed it.
C39_Witness ==
  /\ export_node = "destroyed"
  /\ NodeEvents("RemoveExportNode") # {}
  /\ \E h \in NodeEvents("~ExportNodeHolder") :
       /\ h > 1
       /\ export_log[h - 1].op = "Bind"
       /\ h < Len(export_log)
       /\ export_log[h + 1].op = "EntityNode"

====
